---- MODULE Spec2Model ----
(***************************************************************************)
(* Model of lambda-scripts/ec2-scheduler.py: the Lambda handler that       *)
(* resolves (action, instance_ids, tag_filters) from the event and the     *)
(* environment, queries EC2 for matching instances and starts or stops     *)
(* them.                                                                   *)
(*                                                                         *)
(* Python strings are sequences of characters (a literal fragment of an    *)
(* f-string is one element), so that lower(), split(',') and strip() are   *)
(* computed and not assumed.  A Python value that may be None is a record  *)
(* [type, s].  A dict is a sequence of <<key, value>> pairs in insertion   *)
(* order.  The body of an envelope is the dict handed to json.dumps.       *)
(***************************************************************************)
EXTENDS Integers, Sequences, FiniteSets, TLC

VARIABLES pc,               \* position of the invocation in lambda_handler
          event, env,       \* the payload and the environment of the invocation
          action, instance_ids, tag_filters,   \* locals of lambda_handler
          target_instances, \* result of get_target_instances
          response,         \* what describe_instances returned
          result,           \* what start_instances / stop_instances returned
          calls,            \* the provider calls made so far, in order
          caught,           \* the exception caught at the handler's boundary
          returned          \* the envelope the handler returned

vars == <<pc, event, env, action, instance_ids, tag_filters,
          target_instances, response, result, calls, caught, returned>>

(***************************************************************************)
(* Bounds                                                                  *)
(***************************************************************************)
\* longest INSTANCE_IDS environment string that is enumerated
MaxEnvLen == 3
\* largest number of instances in the provider's inventory
MaxInstances == 2

(***************************************************************************)
(* Python values                                                           *)
(***************************************************************************)
Str(s) == [type |-> "str", s |-> s]
PyNone == [type |-> "NoneType", s |-> <<>>]
IsStr(v) == v.type = "str"
\* bool(v) of a str or None
Truthy(v) == IsStr(v) /\ v.s # <<>>

UpperCase == <<"A","B","C","D","E","F","G","H","I","J","K","L","M",
               "N","O","P","Q","R","S","T","U","V","W","X","Y","Z">>
LowerCase == <<"a","b","c","d","e","f","g","h","i","j","k","l","m",
               "n","o","p","q","r","s","t","u","v","w","x","y","z">>

LowerChar(c) ==
    IF \E i \in 1..Len(UpperCase) : UpperCase[i] = c
    THEN LowerCase[CHOOSE i \in 1..Len(UpperCase) : UpperCase[i] = c]
    ELSE c

\* a mutation of Lower: the comparison is made on the string as given
LowerAsGiven(s) == s

\* str.lower()
Lower(s) == [i \in 1..Len(s) |-> LowerChar(s[i])]

IsSpace(c) == c \in {" ", "\t", "\n"}

RECURSIVE LStrip(_)
LStrip(s) == IF s # <<>> /\ IsSpace(Head(s)) THEN LStrip(Tail(s)) ELSE s

RECURSIVE RStrip(_)
RStrip(s) ==
    IF s # <<>> /\ IsSpace(s[Len(s)]) THEN RStrip(SubSeq(s, 1, Len(s) - 1)) ELSE s

\* str.strip()
Strip(s) == RStrip(LStrip(s))

\* str.split(','): the segments between commas, empty segments included
RECURSIVE Split(_)
Split(s) ==
    IF \A i \in 1..Len(s) : s[i] # ","
    THEN <<s>>
    ELSE LET k == CHOOSE i \in 1..Len(s) :
                      s[i] = "," /\ \A j \in 1..(i - 1) : s[j] # ","
         IN  <<SubSeq(s, 1, k - 1)>> \o Split(SubSeq(s, k + 1, Len(s)))

\* [id.strip() for id in env_instance_ids.split(',')]
ParseInstanceIds(s) == LET parts == Split(s)
                       IN  [i \in 1..Len(parts) |-> Strip(parts[i])]

\* dict.get(key, default) on the event
Get(ev, key, default) == IF key \in ev.keys THEN ev[key] ELSE default

\* os.getenv(name, default)
GetEnv(en, name, default) == IF en[name].set THEN Str(en[name].s) ELSE default

(***************************************************************************)
(* Inputs                                                                  *)
(***************************************************************************)
RECURSIVE SeqsUpTo(_, _)
SeqsUpTo(S, n) ==
    IF n = 0 THEN {<<>>}
    ELSE LET shorter == SeqsUpTo(S, n - 1)
         IN  shorter \cup {Append(s, x) : s \in {t \in shorter : Len(t) = n - 1}, x \in S}

Unset == [set |-> FALSE, s |-> <<>>]
SetTo(s) == [set |-> TRUE, s |-> s]

ActionStrings == { <<"s","t","a","r","t">>, <<"S","t","a","r","t">>,
                   <<"S","T","A","R","T">>, <<"S","T","O","P">>,
                   <<"S","t","o","p">>, <<"p","a","u","s","e">>, <<>> }

IdA == <<"a">>
IdAA == <<"a","a">>
IdB == <<"b">>

EnvProd == <<<<"Env">>, <<"prod">>>>
TierWeb == <<<<"Tier">>, <<"web">>>>

\* the keys an event may carry
EventKeys == {"action", "instance_ids", "tag_filters"}

\* a dict event; the value stored under an absent key is never read
DictEvents ==
    { [kind |-> "dict", keys |-> ks,
       action |-> IF "action" \in ks THEN a ELSE PyNone,
       instance_ids |-> IF "instance_ids" \in ks THEN ids ELSE <<>>,
       tag_filters |-> IF "tag_filters" \in ks THEN tf ELSE <<>>] :
         ks \in SUBSET EventKeys,
         a \in {Str(s) : s \in ActionStrings} \cup {PyNone},
         ids \in {<<>>, <<IdA>>, <<IdA, IdAA>>},
         tf \in {<<>>, <<EnvProd>>, <<EnvProd, TierWeb>>} }

\* an event that is not a dict (the handler invoked with None)
NoneEvent == [kind |-> "none", keys |-> {}, action |-> PyNone,
              instance_ids |-> <<>>, tag_filters |-> <<>>]

EmptyEnv == [DEFAULT_ACTION |-> Unset, INSTANCE_IDS |-> Unset,
             TAG_KEY |-> Unset, TAG_VALUE |-> Unset]

DefaultActions == {Unset, SetTo(<<"S","T","A","R","T">>), SetTo(<<"h","a","l","t">>)}
TagKeys == {Unset, SetTo(<<"Env">>)}
TagValues == {Unset, SetTo(<<>>), SetTo(<<"prod">>)}

\* the event leaves the choice of instances to the environment (line 75)
UsesFallback(ev) ==
    /\ ev.kind = "dict"
    /\ Get(ev, "instance_ids", <<>>) = <<>>
    /\ Get(ev, "tag_filters", <<>>) = <<>>

\* Events with a few environments.  A variable the handler does not consult
\* for the event is left unset.
PayloadInputs ==
    { <<ev, [DEFAULT_ACTION |-> da, INSTANCE_IDS |-> ii,
             TAG_KEY |-> tk, TAG_VALUE |-> tv]>> :
         ev \in DictEvents \cup {NoneEvent},
         da \in DefaultActions,
         ii \in {Unset, SetTo(<<"a", ",", "a", "a">>)},
         tk \in TagKeys,
         tv \in {Unset, SetTo(<<"prod">>)} }

Consulted(ev, en) ==
    /\ (ev.kind # "dict" => en = EmptyEnv)
    /\ ("action" \in ev.keys => en.DEFAULT_ACTION = Unset)
    /\ (~UsesFallback(ev) =>
           en.INSTANCE_IDS = Unset /\ en.TAG_KEY = Unset /\ en.TAG_VALUE = Unset)

EnvAlphabet == {"a", ",", " "}

\* The scheduled trigger with an empty payload, every INSTANCE_IDS string
\* up to MaxEnvLen
ScheduledInputs ==
    { <<[kind |-> "dict", keys |-> {}, action |-> PyNone,
         instance_ids |-> <<>>, tag_filters |-> <<>>],
        [DEFAULT_ACTION |-> da, INSTANCE_IDS |-> ii,
         TAG_KEY |-> Unset, TAG_VALUE |-> tv]>> :
         da \in DefaultActions,
         ii \in {SetTo(s) : s \in SeqsUpTo(EnvAlphabet, MaxEnvLen)},
         tv \in TagValues }

Inputs == {in \in PayloadInputs : Consulted(in[1], in[2])} \cup ScheduledInputs

(***************************************************************************)
(* The provider (EC2), as far as the handler depends on it                 *)
(***************************************************************************)
Instance(id, tags) == [InstanceId |-> id, Tags |-> tags]

InstancePool == { Instance(IdA, <<EnvProd, TierWeb>>),
                  Instance(IdAA, <<EnvProd>>),
                  Instance(IdB, <<>>) }

\* the ways to cut a sequence of instances into consecutive reservations
RECURSIVE Groupings(_)
Groupings(s) ==
    IF s = <<>> THEN {<<>>}
    ELSE UNION { { <<[Instances |-> SubSeq(s, 1, k)]>> \o rest :
                      rest \in Groupings(SubSeq(s, k + 1, Len(s))) } :
                   k \in 1..Len(s) }

Inventories == UNION { Groupings(s) : s \in SeqsUpTo(InstancePool, MaxInstances) }

ProviderErrors == { <<"An error occurred (UnauthorizedOperation)">>,
                    <<"An error occurred (RequestLimitExceeded)">> }

HasTag(inst, f) ==
    \E t \in 1..Len(inst.Tags) :
        /\ <<"tag:">> \o inst.Tags[t][1] = f.Name
        /\ \E v \in 1..Len(f.Values) : f.Values[v] = inst.Tags[t][2]

\* the instance satisfies the parameters of a describe_instances call
Selected(inst, kwargs) ==
    /\ "InstanceIds" \in DOMAIN kwargs =>
           \E i \in 1..Len(kwargs.InstanceIds) : kwargs.InstanceIds[i] = inst.InstanceId
    /\ \A f \in 1..Len(kwargs.Filters) : HasTag(inst, kwargs.Filters[f])

\* describe_instances: the selected instances, reservation by reservation
DescribeInstances(inventory, kwargs) ==
    LET kept(r) == SelectSeq(r.Instances, LAMBDA inst : Selected(inst, kwargs))
        narrowed == [r \in 1..Len(inventory) |-> [Instances |-> kept(inventory[r])]]
    IN  [Reservations |-> SelectSeq(narrowed, LAMBDA r : r.Instances # <<>>)]

(***************************************************************************)
(* get_target_instances                                                    *)
(***************************************************************************)
\* lines 140-148: one filter per tag pair
BuildFilters(tf) ==
    [i \in 1..Len(tf) |-> [Name |-> <<"tag:">> \o tf[i][1], Values |-> <<tf[i][2]>>]]

\* a mutation of DescribeKwargs: the filters are left out when identifiers are given
DescribeKwargsEitherOr(ids, tf) ==
    IF ids # <<>>
    THEN [InstanceIds |-> ids, Filters |-> <<>>]
    ELSE [Filters |-> BuildFilters(tf)]

\* lines 151-157: the keyword arguments of the describe_instances call
DescribeKwargs(ids, tf) ==
    IF ids # <<>>
    THEN [InstanceIds |-> ids, Filters |-> BuildFilters(tf)]
    ELSE [Filters |-> BuildFilters(tf)]

RECURSIVE Concat(_)
Concat(ss) == IF ss = <<>> THEN <<>> ELSE Head(ss) \o Concat(Tail(ss))

RECURSIVE Distinct(_)
Distinct(s) ==
    IF s = <<>> THEN <<>>
    ELSE LET init == Distinct(SubSeq(s, 1, Len(s) - 1))
             last == s[Len(s)]
         IN  IF \E i \in 1..Len(init) : init[i] = last THEN init ELSE Append(init, last)

\* a mutation of ExtractInstanceIds: an identifier is listed once
ExtractDistinctIds(resp) ==
    Distinct(Concat([r \in 1..Len(resp.Reservations) |->
        [i \in 1..Len(resp.Reservations[r].Instances) |->
            resp.Reservations[r].Instances[i].InstanceId]]))

\* lines 160-165: the identifiers of the response, in the order returned
ExtractInstanceIds(resp) ==
    Concat([r \in 1..Len(resp.Reservations) |->
        [i \in 1..Len(resp.Reservations[r].Instances) |->
            resp.Reservations[r].Instances[i].InstanceId]])

(***************************************************************************)
(* Envelopes and exceptions                                                *)
(***************************************************************************)
NoException == [raised |-> FALSE, text |-> <<>>]
Exception(text) == [raised |-> TRUE, text |-> text]

NoEnvelope == [statusCode |-> 0, body |-> <<>>]

\* str(e) of the AttributeError raised by event.get on a None event
NoGetText == <<"'NoneType' object has no attribute 'get'">>
\* str(e) of the AttributeError raised by action.lower() on a None action
NoLowerText == <<"'NoneType' object has no attribute 'lower'">>
\* line 104
InvalidActionText(a) == <<"Invalid action: ">> \o a \o <<". Must be 'start' or 'stop'">>

\* a mutation of ErrorEnvelope: the failure is reported with the success status
ErrorEnvelopeAsSuccess(text) ==
    [statusCode |-> 200,
     body |-> [message |-> <<"Lambda execution failed: ">> \o text,
               affected_instances |-> <<>>]]

\* lines 120-125
ErrorEnvelope(text) ==
    [statusCode |-> 500,
     body |-> [error |-> <<"Lambda execution failed: ">> \o text]]

\* lines 90-96
NoInstancesEnvelope ==
    [statusCode |-> 200,
     body |-> [message |-> <<"No instances found matching the criteria">>,
               affected_instances |-> <<>>]]

\* lines 108-116
SuccessEnvelope(a, targets, res) ==
    [statusCode |-> 200,
     body |-> [message |-> <<"Successfully ">> \o a.s \o
                           <<"ed ", ToString(Len(targets)), " instances">>,
               action |-> a.s,
               affected_instances |-> targets,
               results |-> res]]

(***************************************************************************)
(* lambda_handler                                                          *)
(***************************************************************************)
StartWord == <<"s","t","a","r","t">>
StopWord == <<"s","t","o","p">>

\* lines 70-83: the locals after resolution, or the exception raised by it
Resolved(a, ids, tf) ==
    [raised |-> FALSE, text |-> <<>>, action |-> a, instance_ids |-> ids, tag_filters |-> tf]

ResolutionFailed(text) ==
    [raised |-> TRUE, text |-> text, action |-> PyNone,
     instance_ids |-> <<>>, tag_filters |-> <<>>]

\* line 70
ResolveAction(ev, en) == Get(ev, "action", GetEnv(en, "DEFAULT_ACTION", Str(StopWord)))

\* lines 71, 75-78
ResolveInstanceIds(ev, en) ==
    LET ids == Get(ev, "instance_ids", <<>>)
        tf == Get(ev, "tag_filters", <<>>)
        env_instance_ids == GetEnv(en, "INSTANCE_IDS", Str(<<>>))
    IN  IF ids = <<>> /\ tf = <<>> /\ Truthy(env_instance_ids)
        THEN ParseInstanceIds(env_instance_ids.s)
        ELSE ids

\* lines 72, 75, 80-83
ResolveTagFilters(ev, en) ==
    LET ids == Get(ev, "instance_ids", <<>>)
        tf == Get(ev, "tag_filters", <<>>)
        tag_key == GetEnv(en, "TAG_KEY", Str(<<"Schedule">>))
        tag_value == GetEnv(en, "TAG_VALUE", PyNone)
    IN  IF ids = <<>> /\ tf = <<>> /\ Truthy(tag_value)
        THEN << <<tag_key.s, tag_value.s>> >>
        ELSE tf

\* a mutation of Resolve: the action is validated as soon as it is resolved
ResolveValidating(ev, en) ==
    IF ev.kind # "dict"
    THEN ResolutionFailed(NoGetText)
    ELSE LET a == ResolveAction(ev, en)
         IN  IF IsStr(a) /\ Lower(a.s) \notin {StartWord, StopWord}
             THEN ResolutionFailed(InvalidActionText(a.s))
             ELSE Resolved(a, ResolveInstanceIds(ev, en), ResolveTagFilters(ev, en))

\* lines 68-83; event.get raises AttributeError when the event is not a dict
Resolve(ev, en) ==
    IF ev.kind # "dict"
    THEN ResolutionFailed(NoGetText)
    ELSE Resolved(ResolveAction(ev, en), ResolveInstanceIds(ev, en),
                  ResolveTagFilters(ev, en))

Raise(text) == [to |-> "done", caught |-> Exception(text), returned |-> ErrorEnvelope(text)]
Return(envelope) == [to |-> "done", caught |-> NoException, returned |-> envelope]
Goto(label) == [to |-> label, caught |-> NoException, returned |-> NoEnvelope]

\* a mutation of Dispatch: whatever is not a start is a stop
DispatchStopByDefault(a, targets) ==
    IF targets = <<>> THEN Return(NoInstancesEnvelope)
    ELSE IF ~IsStr(a) THEN Raise(NoLowerText)
    ELSE IF Lower(a.s) = StartWord THEN Goto("start")
    ELSE Goto("stop")

\* a mutation of Dispatch: the action is validated before the empty match is
\* answered
DispatchValidatingFirst(a, targets) ==
    IF ~IsStr(a) THEN Raise(NoLowerText)
    ELSE IF Lower(a.s) \notin {StartWord, StopWord} THEN Raise(InvalidActionText(a.s))
    ELSE IF targets = <<>> THEN Return(NoInstancesEnvelope)
    ELSE IF Lower(a.s) = StartWord THEN Goto("start")
    ELSE Goto("stop")

\* lines 88-104: what the handler does with the result of the query
Dispatch(a, targets) ==
    IF targets = <<>> THEN Return(NoInstancesEnvelope)
    ELSE IF ~IsStr(a) THEN Raise(NoLowerText)
    ELSE IF Lower(a.s) = StartWord THEN Goto("start")
    ELSE IF Lower(a.s) = StopWord THEN Goto("stop")
    ELSE Raise(InvalidActionText(a.s))

Call(op, kwargs, outcome) == [op |-> op, kwargs |-> kwargs, outcome |-> outcome]

\* a mutation of Invoked: a call that raised is made once more
InvokedWithRetry(log, op, kwargs, outcome) ==
    IF outcome = "raised"
    THEN Append(Append(log, Call(op, kwargs, outcome)), Call(op, kwargs, outcome))
    ELSE Append(log, Call(op, kwargs, outcome))

\* the provider calls of the invocation after one more call of ec2_client
Invoked(log, op, kwargs, outcome) == Append(log, Call(op, kwargs, outcome))

NoResponse == [Reservations |-> <<>>]
NoResult == <<>>

Init ==
    /\ pc = "idle"
    /\ event = NoneEvent
    /\ env = EmptyEnv
    /\ action = PyNone
    /\ instance_ids = <<>>
    /\ tag_filters = <<>>
    /\ target_instances = <<>>
    /\ response = NoResponse
    /\ result = NoResult
    /\ calls = <<>>
    /\ caught = NoException
    /\ returned = NoEnvelope

\* lines 68-83 and, when resolution raises, 118-125
lambda_handler ==
    /\ pc = "idle"
    /\ \E in \in Inputs :
         LET r == Resolve(in[1], in[2])
         IN  /\ event' = in[1]
             /\ env' = in[2]
             /\ action' = r.action
             /\ instance_ids' = r.instance_ids
             /\ tag_filters' = r.tag_filters
             /\ IF r.raised
                THEN /\ pc' = "done"
                     /\ caught' = Exception(r.text)
                     /\ returned' = ErrorEnvelope(r.text)
                ELSE /\ pc' = "query"
                     /\ UNCHANGED <<caught, returned>>
    /\ UNCHANGED <<target_instances, response, result, calls>>

\* line 86 with lines 139-169, then lines 88-104 (or 118-125 when it raises)
get_target_instances ==
    /\ pc = "query"
    /\ LET kwargs == DescribeKwargs(instance_ids, tag_filters)
       IN  \/ \E inventory \in Inventories :
                LET resp == DescribeInstances(inventory, kwargs)
                    targets == ExtractInstanceIds(resp)
                    d == Dispatch(action, targets)
                IN  /\ calls' = Invoked(calls, "describe_instances", kwargs, "returned")
                    /\ response' = resp
                    /\ target_instances' = targets
                    /\ pc' = d.to
                    /\ caught' = d.caught
                    /\ returned' = d.returned
           \/ \E e \in ProviderErrors :
                /\ calls' = Invoked(calls, "describe_instances", kwargs, "raised")
                /\ pc' = "done"
                /\ caught' = Exception(e)
                /\ returned' = ErrorEnvelope(e)
                /\ UNCHANGED <<response, target_instances>>
    /\ UNCHANGED <<event, env, action, instance_ids, tag_filters, result>>

\* line 100 with lines 172-189, then lines 106-116 (or 118-125 when it raises)
start_instances ==
    /\ pc = "start"
    /\ LET kwargs == [InstanceIds |-> target_instances]
       IN  \/ LET res == [StartingInstances |-> target_instances]
              IN  /\ calls' = Invoked(calls, "start_instances", kwargs, "returned")
                  /\ result' = res
                  /\ caught' = NoException
                  /\ returned' = SuccessEnvelope(action, target_instances, res)
           \/ \E e \in ProviderErrors :
                /\ calls' = Invoked(calls, "start_instances", kwargs, "raised")
                /\ caught' = Exception(e)
                /\ returned' = ErrorEnvelope(e)
                /\ UNCHANGED result
    /\ pc' = "done"
    /\ UNCHANGED <<event, env, action, instance_ids, tag_filters,
                   target_instances, response>>

\* line 102 with lines 192-209, then lines 106-116 (or 118-125 when it raises)
stop_instances ==
    /\ pc = "stop"
    /\ LET kwargs == [InstanceIds |-> target_instances]
       IN  \/ LET res == [StoppingInstances |-> target_instances]
              IN  /\ calls' = Invoked(calls, "stop_instances", kwargs, "returned")
                  /\ result' = res
                  /\ caught' = NoException
                  /\ returned' = SuccessEnvelope(action, target_instances, res)
           \/ \E e \in ProviderErrors :
                /\ calls' = Invoked(calls, "stop_instances", kwargs, "raised")
                /\ caught' = Exception(e)
                /\ returned' = ErrorEnvelope(e)
                /\ UNCHANGED result
    /\ pc' = "done"
    /\ UNCHANGED <<event, env, action, instance_ids, tag_filters,
                   target_instances, response>>

Next == lambda_handler \/ get_target_instances \/ start_instances \/ stop_instances

Spec == Init /\ [][Next]_vars

TypeOK ==
    /\ pc \in {"idle", "query", "start", "stop", "done"}
    /\ Len(calls) <= 2

(***************************************************************************)
(* Vocabulary of the properties.  None of it uses the operators above that *)
(* compute what the handler computes.                                      *)
(***************************************************************************)
Done == pc = "done"

\* t occurs in s
Contains(s, t) ==
    \E i \in 0..(Len(s) - Len(t)) : SubSeq(s, i + 1, i + Len(t)) = t

\* s is word in some mixture of upper and lower case
SpelledAs(s, word) ==
    /\ Len(s) = Len(word)
    /\ \A i \in 1..Len(word) :
          \/ s[i] = word[i]
          \/ \E l \in 1..Len(LowerCase) : LowerCase[l] = word[i] /\ UpperCase[l] = s[i]

ActionIsStart == IsStr(action) /\ SpelledAs(action.s, <<"s","t","a","r","t">>)
ActionIsStop == IsStr(action) /\ SpelledAs(action.s, <<"s","t","o","p">>)
ActionIsInvalid == IsStr(action) /\ ~ActionIsStart /\ ~ActionIsStop

CallsOf(ops) == {i \in 1..Len(calls) : calls[i].op \in ops}
ControlOps == {"start_instances", "stop_instances"}
NoControlCall == CallsOf(ControlOps) = {}

QueryReturned == Len(calls) >= 1 /\ calls[1].outcome = "returned"

InvalidActionRaised == caught.raised /\ Contains(caught.text, <<"Invalid action: ">>)

PayloadNamesNoInstances ==
    /\ event.kind = "dict"
    /\ ("instance_ids" \in event.keys => event.instance_ids = <<>>)
    /\ ("tag_filters" \in event.keys => event.tag_filters = <<>>)

IsEnvelope(e, status, fields) == e.statusCode = status /\ DOMAIN e.body = fields

\* the position before the first instance of reservation r in the flat list
RECURSIVE Offset(_, _)
Offset(resp, r) ==
    IF r = 1 THEN 0
    ELSE Offset(resp, r - 1) + Len(resp.Reservations[r - 1].Instances)

\* ids lists the instances of resp, reservation after reservation
ListsInOrder(ids, resp) ==
    /\ Len(ids) = Offset(resp, Len(resp.Reservations) + 1)
    /\ \A r \in 1..Len(resp.Reservations) :
          \A i \in 1..Len(resp.Reservations[r].Instances) :
              ids[Offset(resp, r) + i] = resp.Reservations[r].Instances[i].InstanceId

(***************************************************************************)
(* C1                                                                      *)
(***************************************************************************)
\* C1: when the payload names no instances and no tag filters and neither
\* INSTANCE_IDS nor TAG_VALUE is set, whatever the query returns: the resolved
\* identifiers and filters are empty, the only provider call is the
\* empty-filter describe_instances, and the invocation answers 200 with an
\* empty affected_instances and without a start or stop call.  (Stated for
\* the invocations whose action is a start or a stop.)
NoFilterFallbackTouchesNothing ==
    ( /\ Done
      /\ ActionIsStart \/ ActionIsStop
      /\ PayloadNamesNoInstances
      /\ ~env.INSTANCE_IDS.set
      /\ ~env.TAG_VALUE.set
      /\ QueryReturned )
    => /\ instance_ids = <<>>
       /\ tag_filters = <<>>
       /\ calls[1].kwargs = [Filters |-> <<>>]
       /\ NoControlCall
       /\ returned.statusCode = 200
       /\ "affected_instances" \in DOMAIN returned.body
       /\ returned.body.affected_instances = <<>>

(***************************************************************************)
(* C2                                                                      *)
(***************************************************************************)
\* C2 as stated: an invocation whose action is neither start nor stop in any
\* case answers 500 with the invalid-action message and makes no start or
\* stop call, whatever the query returns.
InvalidActionAlwaysFails ==
    (Done /\ ActionIsInvalid /\ QueryReturned)
    => /\ IsEnvelope(returned, 500, {"error"})
       /\ Contains(returned.body.error, <<"Invalid action: ">> \o action.s)
       /\ NoControlCall

\* C2 as amended: an invocation whose action is neither start nor stop in
\* any case never makes a start or stop call, and when its query returns at
\* least one instance it answers 500 with the invalid-action message.
InvalidActionFailsOnTargets ==
    ActionIsInvalid
    => /\ NoControlCall
       /\ pc \notin {"start", "stop"}
       /\ (Done /\ QueryReturned /\ target_instances # <<>>)
          => /\ IsEnvelope(returned, 500, {"error"})
             /\ Contains(returned.body.error, <<"Invalid action: ">> \o action.s)

InvalidActionOnTargetsSeen ==
    /\ Done
    /\ action = Str(<<"p","a","u","s","e">>)
    /\ target_instances # <<>>
    /\ returned.statusCode = 500

(***************************************************************************)
(* C3                                                                      *)
(***************************************************************************)
\* C3: whenever the query returns no instance the handler returns exactly
\* the 200 envelope with the no-instances message and an empty
\* affected_instances, with no action and no results field, whatever the
\* action is, and makes no start or stop call.
EmptyMatchEnvelope ==
    (QueryReturned /\ target_instances = <<>>)
    => /\ Done
       /\ NoControlCall
       /\ returned =
            [statusCode |-> 200,
             body |-> [message |-> <<"No instances found matching the criteria">>,
                       affected_instances |-> <<>>]]

EmptyMatchWithInvalidActionSeen ==
    /\ Done
    /\ QueryReturned
    /\ target_instances = <<>>
    /\ ActionIsInvalid
    /\ returned.statusCode = 200

(***************************************************************************)
(* C4                                                                      *)
(***************************************************************************)
\* C4: with at least one instance matched, an action that spells start in
\* any case leads to exactly one start_instances call and to no
\* stop_instances call, an action that spells stop in any case to exactly one
\* stop_instances call and to no start_instances call, and the answer is 200
\* when that call succeeds.
CaseInsensitiveDispatch ==
    (Done /\ QueryReturned /\ target_instances # <<>>)
    => /\ ActionIsStart =>
             /\ Cardinality(CallsOf({"start_instances"})) = 1
             /\ CallsOf({"stop_instances"}) = {}
       /\ ActionIsStop =>
             /\ Cardinality(CallsOf({"stop_instances"})) = 1
             /\ CallsOf({"start_instances"}) = {}
       /\ (ActionIsStart \/ ActionIsStop) =>
             /\ Len(calls) = 2
             /\ calls[2].outcome = "returned" => returned.statusCode = 200

UpperCaseStartSeen ==
    /\ Done
    /\ action = Str(<<"S","T","A","R","T">>)
    /\ Len(calls) = 2
    /\ calls[2].op = "start_instances"
    /\ returned.statusCode = 200

(***************************************************************************)
(* C5                                                                      *)
(***************************************************************************)
\* C5: no exception leaves the handler: an invocation that is not finished
\* can go on, a finished one has returned an envelope with status 200 or
\* 500, and when resolution, the query or the start/stop call raised, the
\* envelope has status 500 and a body with the single field error, which
\* contains the text of the exception.
ExceptionsBecomeEnvelopes ==
    /\ ~Done => ENABLED Next
    /\ Done =>
          /\ returned.statusCode \in {200, 500}
          /\ ( \/ caught.raised
               \/ event.kind # "dict"
               \/ \E i \in 1..Len(calls) : calls[i].outcome = "raised" )
             => /\ caught.raised
                /\ IsEnvelope(returned, 500, {"error"})
                /\ Contains(returned.body.error, caught.text)
          /\ (\E i \in 1..Len(calls) : calls[i].outcome = "raised")
             => caught.text \in ProviderErrors

DispatchFailureSeen ==
    /\ Done
    /\ Len(calls) = 2
    /\ calls[2].outcome = "raised"
    /\ returned.statusCode = 500

(***************************************************************************)
(* C6                                                                      *)
(***************************************************************************)
\* C6: in an invocation that started or stopped instances, the identifiers
\* passed to the one start/stop call and the affected_instances of the 200
\* answer both list the instances of the describe_instances response,
\* reservation after reservation and instance after instance, duplicates
\* included.
AffectedInstancesInProviderOrder ==
    (Done /\ returned.statusCode = 200 /\ "results" \in DOMAIN returned.body)
    => /\ Cardinality(CallsOf(ControlOps)) = 1
       /\ calls[2].op \in ControlOps
       /\ ListsInOrder(calls[2].kwargs.InstanceIds, response)
       /\ ListsInOrder(returned.body.affected_instances, response)

DuplicateAcrossReservationsSeen ==
    /\ Done
    /\ returned.statusCode = 200
    /\ Len(response.Reservations) = 2
    /\ Len(calls) = 2
    /\ calls[2].op = "stop_instances"
    /\ calls[2].kwargs.InstanceIds = <<IdA, IdA>>
    /\ returned.body.affected_instances = <<IdA, IdA>>

(***************************************************************************)
(* C7                                                                      *)
(***************************************************************************)
\* C7: the describe_instances call carries one exact-match filter per tag
\* pair and, when identifiers are given, the identifiers as well, so that
\* every instance returned is one of the given identifiers and has every tag
\* pair; without identifiers the call carries the filters only; and a query
\* that returns nothing is answered with 200 and an empty affected_instances.
ConjunctiveFiltering ==
    Len(calls) >= 1
    => LET kwargs == calls[1].kwargs
       IN  /\ calls[1].op = "describe_instances"
           /\ IF instance_ids # <<>>
              THEN DOMAIN kwargs = {"InstanceIds", "Filters"}
                   /\ kwargs.InstanceIds = instance_ids
              ELSE DOMAIN kwargs = {"Filters"}
           /\ Len(kwargs.Filters) = Len(tag_filters)
           /\ \A f \in 1..Len(tag_filters) :
                 kwargs.Filters[f] = [Name |-> <<"tag:">> \o tag_filters[f][1],
                                      Values |-> <<tag_filters[f][2]>>]
           /\ \A r \in 1..Len(response.Reservations) :
                 \A i \in 1..Len(response.Reservations[r].Instances) :
                    LET inst == response.Reservations[r].Instances[i]
                    IN  /\ instance_ids # <<>> =>
                              \E k \in 1..Len(instance_ids) :
                                  instance_ids[k] = inst.InstanceId
                        /\ \A f \in 1..Len(tag_filters) :
                              \E t \in 1..Len(inst.Tags) : inst.Tags[t] = tag_filters[f]
           /\ (Done /\ QueryReturned /\ response.Reservations = <<>>)
              => /\ returned.statusCode = 200
                 /\ "affected_instances" \in DOMAIN returned.body
                 /\ returned.body.affected_instances = <<>>

IdsAndTagsNarrowedSeen ==
    /\ Done
    /\ instance_ids = <<IdA, IdAA>>
    /\ tag_filters = <<EnvProd, TierWeb>>
    /\ QueryReturned
    /\ target_instances = <<IdA>>

(***************************************************************************)
(* C8                                                                      *)
(***************************************************************************)
\* C8 as stated: when the invalid-action error is raised, no provider call
\* of any kind has been made.
InvalidActionBeforeAnyCall == InvalidActionRaised => calls = <<>>

\* C8 as amended: when the invalid-action error is raised, the one provider
\* call made is the describe_instances query, which returned; no start or
\* stop call is made before the error or after it.
InvalidActionBeforeControlCall ==
    InvalidActionRaised
    => /\ Done
       /\ Len(calls) = 1
       /\ calls[1].op = "describe_instances"
       /\ calls[1].outcome = "returned"

InvalidActionErrorSeen ==
    /\ InvalidActionRaised
    /\ action = Str(<<>>)
    /\ Len(calls) = 1

(***************************************************************************)
(* C9                                                                      *)
(***************************************************************************)
\* C9: when the payload names no instances and no tag filters, the
\* identifiers given to the query are the segments of INSTANCE_IDS between
\* commas without their surrounding whitespace, none of them is empty, and
\* an unset or empty INSTANCE_IDS gives the empty list.
EnvironmentIdsAreNonEmpty ==
    (Len(calls) >= 1 /\ PayloadNamesNoInstances)
    => LET kwargs == calls[1].kwargs
           passed == IF "InstanceIds" \in DOMAIN kwargs THEN kwargs.InstanceIds ELSE <<>>
           given == env.INSTANCE_IDS
       IN  /\ \A i \in 1..Len(passed) :
                 /\ passed[i] # <<>>
                 /\ \A j \in 1..Len(passed[i]) : passed[i][j] \notin {",", " "}
           /\ (~given.set \/ given.s = <<>>) => passed = <<>>
           /\ given.set =>
                 Len(passed) <= 1 + Cardinality({k \in 1..Len(given.s) : given.s[k] = ","})

(***************************************************************************)
(* C10                                                                     *)
(***************************************************************************)
\* C10: an invocation makes at most one describe_instances call and at most
\* one start/stop call, a start/stop call comes after a describe_instances
\* call that returned, and a call that raised is the last call of the
\* invocation.
CallOrdering ==
    /\ Cardinality(CallsOf({"describe_instances"})) <= 1
    /\ Cardinality(CallsOf(ControlOps)) <= 1
    /\ \A i \in CallsOf(ControlOps) :
          \E j \in 1..(i - 1) :
              calls[j].op = "describe_instances" /\ calls[j].outcome = "returned"
    /\ \A i \in 1..Len(calls) : calls[i].outcome = "raised" => i = Len(calls)
    /\ Done /\ caught.raised => ~ENABLED Next

QueryFailureSeen ==
    /\ Done
    /\ Len(calls) = 1
    /\ calls[1].op = "describe_instances"
    /\ calls[1].outcome = "raised"

====
